---- MODULE Spec2Model ----
(***************************************************************************)
(* Model of the transaction input satisfier of src/script/sign.cpp:        *)
(* SignStep / ProduceSignature, SignatureData and its merge,               *)
(* DataFromTransaction, SignSignature and the signing providers/creators.  *)
(*                                                                         *)
(* Byte vectors (valtype, CScript used as locking code, CPubKey) are       *)
(* records [t, a, b, c]; an unlocking script (scriptSig) is a sequence of  *)
(* script operations.  Hash160 is an injective (collision free) map.       *)
(***************************************************************************)
EXTENDS Integers, Sequences, FiniteSets, TLC

\* ------------------------------------------------------------------------
\* Bounds
\* ------------------------------------------------------------------------
\* number of operations run on one input in a behaviour
MaxOps == 2

\* ------------------------------------------------------------------------
\* Program constants
\* ------------------------------------------------------------------------
SIGHASH_ALL == 1
SIGHASH_FORKID == 64

\* ------------------------------------------------------------------------
\* Byte vectors
\* ------------------------------------------------------------------------
KeyIds == {1, 2, 3}

Item(t, a, b, c) == [t |-> t, a |-> a, b |-> b, c |-> c]

\* the empty byte vector valtype(); also the empty CScript
EmptyItem == Item("empty", 0, 0, 0)

\* a one byte vector holding n
ByteItem(n) == Item("byte", n, 0, 0)

\* a 20 byte hash used as data item
HashItem(h) == Item("hash", h, 0, 0)

\* serialized public key of the key with id k
PubKeyOf(k) == Item("pk", k + 20, 0, 0)

\* serialized body of script number i of ScriptTable
ScriptItem(i) == Item("script", i, 0, 0)

\* an ECDSA signature by key k over sighash `digest`, with the sighash type
\* byte ht appended
SigItem(k, digest, ht) == Item("sig", k, digest, ht)

\* Hash160 of a byte vector (CPubKey::GetID, CScriptID(CScript)): key ids are
\* 1..3, script ids are 100 + script number, anything else hashes elsewhere
Hash160(v) ==
    CASE v.t = "pk" -> v.a - 20
      [] v.t = "script" -> 100 + v.a
      [] v.t = "empty" -> 100
      [] OTHER -> 999

GetID(pubkey) == Hash160(pubkey)

CScriptID(script) == Hash160(script)

\* ------------------------------------------------------------------------
\* Locking scripts
\* ------------------------------------------------------------------------
ScriptBody(op, req, pks, kh, sh) ==
    [op |-> op, req |-> req, pks |-> pks, kh |-> kh, sh |-> sh]

ScriptTable ==
    << ScriptBody("OP_TRUE", 0, <<>>, 0, 0),
       ScriptBody("OP_RETURN", 0, <<>>, 0, 0),
       ScriptBody("P2PK", 0, <<PubKeyOf(1)>>, 0, 0),
       ScriptBody("P2PKH", 0, <<>>, 1, 0),
       ScriptBody("MULTISIG", 2, <<PubKeyOf(1), PubKeyOf(2), PubKeyOf(3)>>, 0, 0),
       ScriptBody("P2SH", 0, <<>>, 0, 110),
       ScriptBody("P2SH", 0, <<>>, 0, 106),
       ScriptBody("P2SH", 0, <<>>, 0, 100),
       ScriptBody("P2SH", 0, <<>>, 0, 104),
       ScriptBody("MULTISIG", 1, <<PubKeyOf(2), PubKeyOf(3)>>, 0, 0),
       ScriptBody("P2SH", 0, <<>>, 0, 105) >>

ScriptNumbers == 1..Len(ScriptTable)

\* every CScript value used as locking code or redeem script
AllScripts == {EmptyItem} \cup {ScriptItem(i) : i \in ScriptNumbers}

\* the locking scripts the input of a behaviour refers to (the Pay2ScriptHash
\* of the 2-of-3 MultiSig is signed for in the two-party property only)
LockScripts == AllScripts \ {ScriptItem(11)}

IsTableScript(script) == script.t = "script" /\ script.a \in ScriptNumbers

BodyOf(script) == ScriptTable[script.a]

\* ------------------------------------------------------------------------
\* Script template matcher
\* ------------------------------------------------------------------------
Solver(script) ==
    IF ~IsTableScript(script)
    THEN [type |-> "TX_NONSTANDARD", vSolutions |-> <<>>]
    ELSE LET s == BodyOf(script) IN
         CASE s.op = "OP_RETURN" ->
                [type |-> "TX_NULL_DATA", vSolutions |-> <<>>]
           [] s.op = "P2PK" ->
                [type |-> "TX_PUBKEY", vSolutions |-> <<s.pks[1]>>]
           [] s.op = "P2PKH" ->
                [type |-> "TX_PUBKEYHASH", vSolutions |-> <<HashItem(s.kh)>>]
           [] s.op = "P2SH" ->
                [type |-> "TX_SCRIPTHASH", vSolutions |-> <<HashItem(s.sh)>>]
           [] s.op = "MULTISIG" ->
                [type |-> "TX_MULTISIG",
                 vSolutions |-> <<ByteItem(s.req)>> \o s.pks
                                  \o <<ByteItem(Len(s.pks))>>]
           [] OTHER ->
                [type |-> "TX_NONSTANDARD", vSolutions |-> <<>>]

\* ------------------------------------------------------------------------
\* Unlocking scripts
\* ------------------------------------------------------------------------
ScriptOp(o, v) == [o |-> o, v |-> v]

OP_0 == ScriptOp("OP_0", EmptyItem)

OP_N(n) == ScriptOp("OP_N", ByteItem(n))

PushData(v) == ScriptOp("PUSH", v)

OP_NOP == ScriptOp("OP_NOP", EmptyItem)

IsPushOnly(script) == \A i \in 1..Len(script) : script[i].o # "OP_NOP"

\* value stack left by a push-only script
EvalPushOnly(script) ==
    [i \in 1..Len(script) |->
        CASE script[i].o = "OP_0" -> EmptyItem
          [] script[i].o = "OP_N" -> script[i].v
          [] OTHER -> script[i].v]

\* SCRIPT_VERIFY_MINIMALDATA: every push uses the shortest encoding
IsMinimalPush(op) ==
    op.o = "PUSH" => ~(op.v.t = "empty" \/ (op.v.t = "byte" /\ op.v.a \in 1..16))

CastToBool(v) == ~(v.t = "empty" \/ (v.t = "byte" /\ v.a = 0))

Front(s) == SubSeq(s, 1, Len(s) - 1)

Last(s) == s[Len(s)]

\* ------------------------------------------------------------------------
\* Signature checkers
\* ------------------------------------------------------------------------
HasForkId(ht) == (ht \div SIGHASH_FORKID) % 2 = 1

\* sighash of the input for a script code (transaction, input and amount are
\* fixed in one behaviour)
SignatureHash(scriptCode, ht) == Hash160(scriptCode)

TxCheckSig(sig, pubkey, scriptCode) ==
    /\ pubkey.t = "pk"
    /\ sig.t = "sig"
    /\ sig.a = GetID(pubkey)
    /\ sig.b = SignatureHash(scriptCode, sig.c)

DummyCheckSig(sig, pubkey, scriptCode) == TRUE

CheckSig(checker, sig, pubkey, scriptCode) ==
    IF checker = "dummy"
    THEN DummyCheckSig(sig, pubkey, scriptCode)
    ELSE TxCheckSig(sig, pubkey, scriptCode)

\* ------------------------------------------------------------------------
\* Script interpreter under the standard verification flags
\* ------------------------------------------------------------------------
\* STRICTENC / SIGHASH_FORKID: a non-empty signature must be a well formed
\* signature whose sighash type byte carries the fork marker
CheckSignatureEncoding(sig) ==
    \/ sig.t = "empty"
    \/ sig.t \in {"sig", "dsig"} /\ HasForkId(sig.c)

CheckPubKeyEncoding(pubkey) == pubkey.t = "pk"

NoChecks == {}

Accepted(pubkey, sig) == [pubkey |-> pubkey, sig |-> sig]

\* OP_CHECKMULTISIG matching loop: the topmost remaining signature is tried
\* against the topmost remaining key; rec collects the accepted checks
RECURSIVE MultiSigLoop(_, _, _, _, _, _)
MultiSigLoop(sigs, pks, nSigs, nKeys, scriptCode, checker) ==
    IF nSigs = 0 THEN [ok |-> TRUE, rec |-> NoChecks]
    ELSE IF nSigs > nKeys THEN [ok |-> FALSE, rec |-> NoChecks]
    ELSE IF ~CheckSignatureEncoding(sigs[nSigs]) \/ ~CheckPubKeyEncoding(pks[nKeys])
    THEN [ok |-> FALSE, rec |-> NoChecks]
    ELSE IF CheckSig(checker, sigs[nSigs], pks[nKeys], scriptCode)
    THEN LET r == MultiSigLoop(sigs, pks, nSigs - 1, nKeys - 1, scriptCode, checker)
         IN  [ok |-> r.ok, rec |-> r.rec \cup {Accepted(pks[nKeys], sigs[nSigs])}]
    ELSE MultiSigLoop(sigs, pks, nSigs, nKeys - 1, scriptCode, checker)

\* run a locking script on a value stack; ok means it ran without error and
\* left exactly one true value (CLEANSTACK)
EvalScript(script, stack, checker) ==
    IF script = EmptyItem
    THEN [ok |-> Len(stack) = 1 /\ CastToBool(stack[1]), rec |-> NoChecks]
    ELSE IF ~IsTableScript(script)
    THEN [ok |-> FALSE, rec |-> NoChecks]
    ELSE LET s == BodyOf(script) IN
         CASE s.op = "OP_TRUE" ->
                [ok |-> Len(stack) = 0, rec |-> NoChecks]
           [] s.op = "P2PK" ->
                IF /\ Len(stack) = 1
                   /\ CheckSignatureEncoding(stack[1])
                   /\ CheckSig(checker, stack[1], s.pks[1], script)
                THEN [ok |-> TRUE, rec |-> {Accepted(s.pks[1], stack[1])}]
                ELSE [ok |-> FALSE, rec |-> NoChecks]
           [] s.op = "P2PKH" ->
                IF /\ Len(stack) = 2
                   /\ Hash160(stack[2]) = s.kh
                   /\ CheckSignatureEncoding(stack[1])
                   /\ CheckPubKeyEncoding(stack[2])
                   /\ CheckSig(checker, stack[1], stack[2], script)
                THEN [ok |-> TRUE, rec |-> {Accepted(stack[2], stack[1])}]
                ELSE [ok |-> FALSE, rec |-> NoChecks]
           [] s.op = "P2SH" ->
                [ok |-> Len(stack) = 1 /\ Hash160(stack[1]) = s.sh,
                 rec |-> NoChecks]
           [] s.op = "MULTISIG" ->
                IF Len(stack) < s.req + 1
                THEN [ok |-> FALSE, rec |-> NoChecks]
                ELSE LET n == Len(stack)
                         sigs == SubSeq(stack, n - s.req + 1, n)
                         r == MultiSigLoop(sigs, s.pks, s.req, Len(s.pks),
                                           script, checker)
                     IN  [ok |-> /\ r.ok
                                 /\ n = s.req + 1
                                 /\ stack[n - s.req] = EmptyItem,
                          rec |-> r.rec]
           [] OTHER -> [ok |-> FALSE, rec |-> NoChecks]

IsPayToScriptHash(script) ==
    IsTableScript(script) /\ BodyOf(script).op = "P2SH"

VerifyScript(scriptSig, scriptPubKey, checker) ==
    IF ~IsPushOnly(scriptSig)
       \/ \E i \in 1..Len(scriptSig) : ~IsMinimalPush(scriptSig[i])
    THEN [ok |-> FALSE, rec |-> NoChecks]
    ELSE LET stack == EvalPushOnly(scriptSig) IN
         IF IsPayToScriptHash(scriptPubKey)
         THEN IF Len(stack) = 0
                 \/ Hash160(Last(stack)) # BodyOf(scriptPubKey).sh
              THEN [ok |-> FALSE, rec |-> NoChecks]
              ELSE EvalScript(Last(stack), Front(stack), checker)
         ELSE EvalScript(scriptPubKey, stack, checker)

\* ------------------------------------------------------------------------
\* Signing providers
\* ------------------------------------------------------------------------
\* a FlatSigningProvider (its four maps, given by their key sets; a key id
\* maps to its own public key / private key, a script id to its script)
\* behind a HidingSigningProvider with the two flags
SigningProvider(scripts, pubkeys, keys, origins, hide_secret, hide_origin) ==
    [scripts |-> scripts, pubkeys |-> pubkeys, keys |-> keys,
     origins |-> origins, hide_secret |-> hide_secret,
     hide_origin |-> hide_origin]

LookupHelper(map, key) == key \in map

FlatGetCScript(provider, scriptid) ==
    \E s \in provider.scripts : CScriptID(s) = scriptid

FlatCScript(provider, scriptid) ==
    CHOOSE s \in provider.scripts : CScriptID(s) = scriptid

FlatGetPubKey(provider, keyid) == LookupHelper(provider.pubkeys, keyid)

FlatGetKeyOrigin(provider, keyid) == LookupHelper(provider.origins, keyid)

FlatGetKey(provider, keyid) == LookupHelper(provider.keys, keyid)

HidingGetCScript(provider, scriptid) == FlatGetCScript(provider, scriptid)

HidingGetPubKey(provider, keyid) == FlatGetPubKey(provider, keyid)

HidingGetKey(provider, keyid) ==
    IF provider.hide_secret THEN FALSE ELSE FlatGetKey(provider, keyid)

HidingGetKeyOrigin(provider, keyid) ==
    IF provider.hide_origin THEN FALSE ELSE FlatGetKeyOrigin(provider, keyid)

\* DUMMY_SIGNING_PROVIDER answers nothing
DUMMY_SIGNING_PROVIDER == SigningProvider({}, {}, {}, {}, FALSE, FALSE)

\* ------------------------------------------------------------------------
\* Signature creators
\* ------------------------------------------------------------------------
\* a MutableTransactionSignatureCreator for the input with sighash type ht
TxCreator(ht) == [dummy |-> FALSE, ht |-> ht, r_len |-> 0, s_len |-> 0]

DummySignatureCreator(r_len, s_len) ==
    [dummy |-> TRUE, ht |-> SIGHASH_ALL + SIGHASH_FORKID,
     r_len |-> r_len, s_len |-> s_len]

DUMMY_SIGNATURE_CREATOR == DummySignatureCreator(32, 32)

DUMMY_MAXIMUM_SIGNATURE_CREATOR == DummySignatureCreator(33, 32)

Checker(creator) == IF creator.dummy THEN "dummy" ELSE "tx"

\* number of calls made to the collaborators during one operation
Calls(solver, provider, creator, verifier) ==
    [solver |-> solver, provider |-> provider, creator |-> creator,
     verifier |-> verifier]

NoCalls == Calls(0, 0, 0, 0)

AddCalls(x, y) ==
    Calls(x.solver + y.solver, x.provider + y.provider,
          x.creator + y.creator, x.verifier + y.verifier)

\* MutableTransactionSignatureCreator::CreateSig
TxCreateSig(creator, provider, address, scriptCode) ==
    IF ~HidingGetKey(provider, address)
    THEN [ok |-> FALSE, sig |-> EmptyItem]
    ELSE [ok |-> TRUE,
          sig |-> SigItem(address, SignatureHash(scriptCode, creator.ht),
                          creator.ht)]

\* DummySignatureCreator::CreateSig
DummyCreateSig(creator, provider, keyid, scriptCode) ==
    [ok |-> TRUE, sig |-> Item("dsig", creator.r_len, creator.s_len, creator.ht)]

CreatorCreateSig(creator, provider, keyid, scriptCode) ==
    IF creator.dummy
    THEN DummyCreateSig(creator, provider, keyid, scriptCode)
    ELSE TxCreateSig(creator, provider, keyid, scriptCode)

\* ------------------------------------------------------------------------
\* SignatureData
\* ------------------------------------------------------------------------
NoSignatures == [k \in {} |-> [pubkey |-> EmptyItem, sig |-> EmptyItem]]

NoPubKeys == [k \in {} |-> EmptyItem]

\* a freshly constructed SignatureData
SignatureData ==
    [complete |-> FALSE,
     scriptSig |-> <<>>,
     redeem_script |-> EmptyItem,
     signatures |-> NoSignatures,
     misc_pubkeys |-> NoPubKeys,
     missing_pubkeys |-> <<>>,
     missing_sigs |-> <<>>,
     missing_redeem_script |-> 0]

\* std::map::emplace: insert unless the key is present
Emplace(map, key, value) ==
    IF key \in DOMAIN map THEN map
    ELSE [k \in DOMAIN map \cup {key} |-> IF k = key THEN value ELSE map[k]]

SigPair(pubkey, sig) == [pubkey |-> pubkey, sig |-> sig]

\* ------------------------------------------------------------------------
\* The satisfier
\* ------------------------------------------------------------------------
\* GetCScript asking the provider only
GetCScriptProviderOnly(provider, sigdata, scriptid) ==
    IF HidingGetCScript(provider, scriptid)
    THEN [ok |-> TRUE, script |-> FlatCScript(provider, scriptid)]
    ELSE [ok |-> FALSE, script |-> EmptyItem]

GetCScript(provider, sigdata, scriptid) ==
    IF HidingGetCScript(provider, scriptid)
    THEN [ok |-> TRUE, script |-> FlatCScript(provider, scriptid)]
    ELSE IF CScriptID(sigdata.redeem_script) = scriptid
    THEN [ok |-> TRUE, script |-> sigdata.redeem_script]
    ELSE [ok |-> FALSE, script |-> EmptyItem]

\* GetPubKey reporting a key it did not find
GetPubKeyAlways(provider, sigdata, address) ==
    [ok |-> TRUE, pubkey |-> PubKeyOf(address), sigdata |-> sigdata,
     calls |-> Calls(0, 1, 0, 0)]

GetPubKey(provider, sigdata, address) ==
    IF address \in DOMAIN sigdata.signatures
    THEN [ok |-> TRUE, pubkey |-> sigdata.signatures[address].pubkey,
          sigdata |-> sigdata, calls |-> NoCalls]
    ELSE IF address \in DOMAIN sigdata.misc_pubkeys
    THEN [ok |-> TRUE, pubkey |-> sigdata.misc_pubkeys[address],
          sigdata |-> sigdata, calls |-> NoCalls]
    ELSE IF HidingGetPubKey(provider, address)
    THEN [ok |-> TRUE, pubkey |-> PubKeyOf(address),
          sigdata |->
            IF HidingGetKeyOrigin(provider, address)
            THEN [sigdata EXCEPT !.misc_pubkeys =
                      Emplace(@, address, PubKeyOf(address))]
            ELSE sigdata,
          calls |-> Calls(0, 2, 0, 0)]
    ELSE [ok |-> FALSE, pubkey |-> EmptyItem, sigdata |-> sigdata,
          calls |-> Calls(0, 1, 0, 0)]

\* CreateSig falling through to the missing list after a success
CreateSigFallThrough(creator, sigdata, provider, pubkey, scriptcode) ==
    LET keyid == GetID(pubkey) IN
    IF keyid \in DOMAIN sigdata.signatures
    THEN [ok |-> TRUE, sig |-> sigdata.signatures[keyid].sig,
          sigdata |-> sigdata, calls |-> NoCalls]
    ELSE LET made == CreatorCreateSig(creator, provider, keyid, scriptcode)
             sd1 == [sigdata EXCEPT !.missing_sigs = Append(@, keyid)]
         IN  [ok |-> made.ok, sig |-> made.sig,
              sigdata |-> IF made.ok
                          THEN [sd1 EXCEPT !.signatures =
                                   Emplace(@, keyid, SigPair(pubkey, made.sig))]
                          ELSE sd1,
              calls |-> Calls(0, 1, 1, 0)]

\* CreateSig signing again for a key whose signature is already held
CreateSigResign(creator, sigdata, provider, pubkey, scriptcode) ==
    LET keyid == GetID(pubkey)
        sd1 == IF HidingGetKeyOrigin(provider, keyid)
               THEN [sigdata EXCEPT !.misc_pubkeys = Emplace(@, keyid, pubkey)]
               ELSE sigdata
        made == CreatorCreateSig(creator, provider, keyid, scriptcode)
    IN  IF made.ok
        THEN [ok |-> TRUE, sig |-> made.sig,
              sigdata |-> [sd1 EXCEPT !.signatures =
                              [k \in DOMAIN @ \cup {keyid} |->
                                  IF k = keyid THEN SigPair(pubkey, made.sig)
                                  ELSE @[k]]],
              calls |-> Calls(0, 1, 1, 0)]
        ELSE [ok |-> FALSE, sig |-> made.sig,
              sigdata |-> [sd1 EXCEPT !.missing_sigs = Append(@, keyid)],
              calls |-> Calls(0, 1, 1, 0)]

CreateSig(creator, sigdata, provider, pubkey, scriptcode) ==
    LET keyid == GetID(pubkey) IN
    IF keyid \in DOMAIN sigdata.signatures
    THEN [ok |-> TRUE, sig |-> sigdata.signatures[keyid].sig,
          sigdata |-> sigdata, calls |-> NoCalls]
    ELSE LET sd1 == IF HidingGetKeyOrigin(provider, keyid)
                    THEN [sigdata EXCEPT !.misc_pubkeys =
                              Emplace(@, keyid, pubkey)]
                    ELSE sigdata
             made == CreatorCreateSig(creator, provider, keyid, scriptcode)
         IN  IF made.ok
             THEN [ok |-> TRUE, sig |-> made.sig,
                   sigdata |-> [sd1 EXCEPT !.signatures =
                                   Emplace(@, keyid, SigPair(pubkey, made.sig))],
                   calls |-> Calls(0, 1, 1, 0)]
             ELSE [ok |-> FALSE, sig |-> made.sig,
                   sigdata |-> [sd1 EXCEPT !.missing_sigs = Append(@, keyid)],
                   calls |-> Calls(0, 1, 1, 0)]

\* the multisig loop giving up at the first public key it cannot sign for
RECURSIVE MultiSigSignStopAtGap(_, _, _, _, _, _, _, _, _)
MultiSigSignStopAtGap(provider, creator, scriptPubKey, vSolutions, required, i, ret, sigdata, calls) ==
    IF i >= Len(vSolutions) - 1
    THEN [ret |-> ret, sigdata |-> sigdata, calls |-> calls]
    ELSE IF Len(ret) < required + 1
    THEN LET c == CreateSig(creator, sigdata, provider, vSolutions[i + 1],
                            scriptPubKey)
         IN  IF c.ok
             THEN MultiSigSignStopAtGap(provider, creator, scriptPubKey,
                                        vSolutions, required, i + 1,
                                        Append(ret, c.sig), c.sigdata,
                                        AddCalls(calls, c.calls))
             ELSE [ret |-> ret, sigdata |-> c.sigdata,
                   calls |-> AddCalls(calls, c.calls)]
    ELSE MultiSigSignStopAtGap(provider, creator, scriptPubKey, vSolutions,
                               required, i + 1, ret, sigdata, calls)

\* the multisig loop without the test that enough signatures are collected
RECURSIVE MultiSigSignAll(_, _, _, _, _, _, _, _, _)
MultiSigSignAll(provider, creator, scriptPubKey, vSolutions, required, i, ret, sigdata, calls) ==
    IF i >= Len(vSolutions) - 1
    THEN [ret |-> ret, sigdata |-> sigdata, calls |-> calls]
    ELSE LET c == CreateSig(creator, sigdata, provider, vSolutions[i + 1],
                            scriptPubKey)
         IN  MultiSigSignAll(provider, creator, scriptPubKey, vSolutions,
                             required, i + 1,
                             IF c.ok THEN Append(ret, c.sig) ELSE ret,
                             c.sigdata, AddCalls(calls, c.calls))

\* the TX_MULTISIG loop of SignStep over vSolutions[i], i = 1 .. size - 2
\* (vSolutions is 1-based here, so index i + 1)
RECURSIVE MultiSigSign(_, _, _, _, _, _, _, _, _)
MultiSigSign(provider, creator, scriptPubKey, vSolutions, required, i, ret, sigdata, calls) ==
    IF i >= Len(vSolutions) - 1
    THEN [ret |-> ret, sigdata |-> sigdata, calls |-> calls]
    ELSE IF Len(ret) < required + 1
    THEN LET c == CreateSig(creator, sigdata, provider, vSolutions[i + 1],
                            scriptPubKey)
         IN  MultiSigSign(provider, creator, scriptPubKey, vSolutions,
                          required, i + 1,
                          IF c.ok THEN Append(ret, c.sig) ELSE ret,
                          c.sigdata, AddCalls(calls, c.calls))
    ELSE MultiSigSign(provider, creator, scriptPubKey, vSolutions, required,
                      i + 1, ret, sigdata, calls)

\* SignStep without its padding loop
PadNothing(ret, n) == ret

\* the padding loop of SignStep
Pad(ret, n) == ret \o [i \in 1..(IF n > Len(ret) THEN n - Len(ret) ELSE 0) |-> EmptyItem]

\* what SignStep hands back: its return value, ret, whichTypeRet, the
\* SignatureData it leaves, and the collaborator calls made (the Solver call
\* at its start included)
StepResult(whichTypeRet, ok, ret, sd, calls) ==
    [ok |-> ok, ret |-> ret, whichTypeRet |-> whichTypeRet, sigdata |-> sd,
     calls |-> AddCalls(Calls(1, 0, 0, 0), calls)]

\* case TX_PUBKEY, c the outcome of CreateSig
SignPubKey(whichTypeRet, c) ==
    StepResult(whichTypeRet, c.ok, IF c.ok THEN <<c.sig>> ELSE <<>>,
               c.sigdata, c.calls)

\* the TX_PUBKEYHASH case returning the signature without the public key
SignPubKeyHashSigOnly(whichTypeRet, g, c) ==
    StepResult(whichTypeRet, c.ok, IF c.ok THEN <<c.sig>> ELSE <<>>,
               c.sigdata, AddCalls(g.calls, c.calls))

\* case TX_PUBKEYHASH past GetPubKey, c the outcome of CreateSig
SignPubKeyHashSig(whichTypeRet, g, c) ==
    StepResult(whichTypeRet, c.ok,
               IF c.ok THEN <<c.sig, g.pubkey>> ELSE <<>>,
               c.sigdata, AddCalls(g.calls, c.calls))

\* case TX_PUBKEYHASH, g the outcome of GetPubKey
SignPubKeyHash(provider, creator, scriptPubKey, whichTypeRet, keyID, g) ==
    IF ~g.ok
    THEN StepResult(whichTypeRet, FALSE, <<>>,
                    [g.sigdata EXCEPT !.missing_pubkeys = Append(@, keyID)],
                    g.calls)
    ELSE SignPubKeyHashSig(whichTypeRet, g,
                           CreateSig(creator, g.sigdata, provider, g.pubkey,
                                     scriptPubKey))

\* case TX_SCRIPTHASH, g the outcome of GetCScript
SignScriptHash(whichTypeRet, sigdata, h160, g) ==
    IF g.ok
    THEN StepResult(whichTypeRet, TRUE, <<g.script>>, sigdata,
                    Calls(0, 1, 0, 0))
    ELSE StepResult(whichTypeRet, FALSE, <<>>,
                    [sigdata EXCEPT !.missing_redeem_script = h160],
                    Calls(0, 1, 0, 0))

\* case TX_MULTISIG, m the outcome of the loop over the public keys
SignMultiSig(whichTypeRet, required, m) ==
    StepResult(whichTypeRet, Len(m.ret) = required + 1,
               Pad(m.ret, required + 1), m.sigdata, m.calls)

\* SignStep past its Solver call
SignStepSolved(provider, creator, scriptPubKey, sigdata, whichTypeRet, vSolutions) ==
    CASE whichTypeRet \in {"TX_NONSTANDARD", "TX_NULL_DATA"} ->
           StepResult(whichTypeRet, FALSE, <<>>, sigdata, NoCalls)
      [] whichTypeRet = "TX_PUBKEY" ->
           SignPubKey(whichTypeRet,
                      CreateSig(creator, sigdata, provider, vSolutions[1],
                                scriptPubKey))
      [] whichTypeRet = "TX_PUBKEYHASH" ->
           SignPubKeyHash(provider, creator, scriptPubKey, whichTypeRet,
                          vSolutions[1].a,
                          GetPubKey(provider, sigdata, vSolutions[1].a))
      [] whichTypeRet = "TX_SCRIPTHASH" ->
           SignScriptHash(whichTypeRet, sigdata, vSolutions[1].a,
                          GetCScript(provider, sigdata, vSolutions[1].a))
      [] whichTypeRet = "TX_MULTISIG" ->
           SignMultiSig(whichTypeRet, vSolutions[1].a,
                        MultiSigSign(provider, creator, scriptPubKey,
                                     vSolutions, vSolutions[1].a, 1,
                                     <<EmptyItem>>, sigdata, NoCalls))
      [] OTHER -> StepResult(whichTypeRet, FALSE, <<>>, sigdata, NoCalls)

\* SignStep taking a TX_NULL_DATA script as solved with no items
SignStepNullDataSolved(provider, creator, scriptPubKey, sigdata, solution) ==
    IF solution.type = "TX_NULL_DATA"
    THEN StepResult(solution.type, TRUE, <<>>, sigdata, NoCalls)
    ELSE SignStepSolved(provider, creator, scriptPubKey, sigdata,
                        solution.type, solution.vSolutions)

SignStepTyped(provider, creator, scriptPubKey, sigdata, solution) ==
    SignStepSolved(provider, creator, scriptPubKey, sigdata, solution.type,
                   solution.vSolutions)

SignStep(provider, creator, scriptPubKey, sigdata) ==
    SignStepTyped(provider, creator, scriptPubKey, sigdata, Solver(scriptPubKey))

PushOne(v) ==
    IF v.t = "empty" THEN OP_0
    ELSE IF v.t = "byte" /\ v.a >= 1 /\ v.a <= 16 THEN OP_N(v.a)
    ELSE PushData(v)

PushAll(values) == [i \in 1..Len(values) |-> PushOne(values[i])]

\* completeness taken from resolution alone
TestSolutionUnverified(solved, scriptSig, fromPubKey, creator) == solved

\* "Test solution": the value ProduceSignature gives sigdata.complete
TestSolution(solved, scriptSig, fromPubKey, creator) ==
    solved /\ VerifyScript(scriptSig, fromPubKey, Checker(creator)).ok

\* the end of ProduceSignature: scriptSig and complete are stored and
\* complete is returned; the verifier runs only when solved
ResolveResult(solved, scriptSig, complete, sd, calls) ==
    [ret |-> complete,
     sigdata |-> [sd EXCEPT !.scriptSig = scriptSig, !.complete = complete],
     solved |-> solved,
     calls |-> AddCalls(calls, IF solved THEN Calls(0, 0, 0, 1) ELSE NoCalls)]

\* ProduceSignature from PushAll(result) on
ResolveTested(creator, fromPubKey, solved, scriptSig, sd, calls) ==
    ResolveResult(solved, scriptSig,
                  TestSolution(solved, scriptSig, fromPubKey, creator),
                  sd, calls)

\* the nested branch accepting a redeem script of any template kind
ResolveNestedDeep(creator, fromPubKey, subscript, calls1, s2) ==
    ResolveTested(creator, fromPubKey, s2.ok,
                  PushAll(Append(s2.ret, subscript)),
                  s2.sigdata, AddCalls(calls1, s2.calls))

\* the TX_SCRIPTHASH branch of ProduceSignature past its second SignStep s2
ResolveNested(creator, fromPubKey, subscript, calls1, s2) ==
    ResolveTested(creator, fromPubKey,
                  s2.ok /\ s2.whichTypeRet # "TX_SCRIPTHASH",
                  PushAll(Append(s2.ret, subscript)),
                  s2.sigdata, AddCalls(calls1, s2.calls))

\* ProduceSignature past its first SignStep s1
ResolveStepped(provider, creator, fromPubKey, s1) ==
    IF s1.ok /\ s1.whichTypeRet = "TX_SCRIPTHASH"
    THEN ResolveNested(creator, fromPubKey, s1.ret[1], s1.calls,
                       SignStep(provider, creator, s1.ret[1],
                                [s1.sigdata EXCEPT !.redeem_script = s1.ret[1]]))
    ELSE ResolveTested(creator, fromPubKey, s1.ok, PushAll(s1.ret),
                       s1.sigdata, s1.calls)

\* ProduceSignature past its early return
Resolve(provider, creator, fromPubKey, sigdata) ==
    ResolveStepped(provider, creator, fromPubKey,
                   SignStep(provider, creator, fromPubKey, sigdata))

\* ProduceSignature without the early return on a complete SignatureData
ProduceSignatureAgain(provider, creator, fromPubKey, sigdata) ==
    Resolve(provider, creator, fromPubKey, sigdata)

ProduceSignature(provider, creator, fromPubKey, sigdata) ==
    IF sigdata.complete
    THEN [ret |-> TRUE, sigdata |-> sigdata, solved |-> FALSE,
          calls |-> NoCalls]
    ELSE Resolve(provider, creator, fromPubKey, sigdata)

\* ------------------------------------------------------------------------
\* Signature extraction
\* ------------------------------------------------------------------------
\* an extractor that records nothing
RecordNone(signatures, rec) == signatures

\* SignatureExtractorChecker::CheckSig applied to the checks the wrapped
\* transaction checker accepted: each is emplaced into sigdata.signatures
RECURSIVE Record(_, _)
Record(signatures, rec) ==
    IF rec = {} THEN signatures
    ELSE LET r == CHOOSE x \in rec : TRUE
         IN  Record(Emplace(signatures, GetID(r.pubkey),
                            SigPair(r.pubkey, r.sig)),
                    rec \ {r})

ExtractorCheckSig(data, sig, pubkey, scriptCode) ==
    IF TxCheckSig(sig, pubkey, scriptCode)
    THEN [ok |-> TRUE,
          data |-> [data EXCEPT !.signatures =
                       Emplace(@, GetID(pubkey), SigPair(pubkey, sig))]]
    ELSE [ok |-> FALSE, data |-> data]

\* Stacks(data).script
Stacks(data) ==
    IF IsPushOnly(data.scriptSig) THEN EvalPushOnly(data.scriptSig) ELSE <<>>

\* one pass of the inner matching loop: stack item s met pubkey i with the
\* cursor at last_success_key; hit when the loop broke out on it
Test(s, i, last_success_key, hit) ==
    [s |-> s, i |-> i, cursor |-> last_success_key, hit |-> hit]

\* the matching loops trying each stack item against one public key only
RECURSIVE MatchSigsOneKey(_, _, _, _, _, _, _, _)
MatchSigsOneKey(data, stack, solutions, next_script, s, i, last_success_key, tests) ==
    IF s > Len(stack) \/ i >= Len(solutions) - 2
    THEN [data |-> data, tests |-> tests]
    ELSE IF GetID(solutions[i + 2]) \in DOMAIN data.signatures
    THEN MatchSigsOneKey(data, stack, solutions, next_script, s + 1, i + 1,
                         i + 1, Append(tests, Test(s, i, last_success_key, TRUE)))
    ELSE MatchSigsOneKey(ExtractorCheckSig(data, stack[s], solutions[i + 2],
                                           next_script).data,
                         stack, solutions, next_script, s + 1,
                         IF TxCheckSig(stack[s], solutions[i + 2], next_script)
                         THEN i + 1 ELSE i,
                         last_success_key,
                         Append(tests, Test(s, i, last_success_key,
                                            TxCheckSig(stack[s], solutions[i + 2],
                                                       next_script))))

\* the matching loops starting every stack item at the first public key
RECURSIVE MatchSigsFromFirst(_, _, _, _, _, _, _, _)
MatchSigsFromFirst(data, stack, solutions, next_script, s, i, last_success_key, tests) ==
    IF s > Len(stack) THEN [data |-> data, tests |-> tests]
    ELSE IF i >= Len(solutions) - 2
    THEN MatchSigsFromFirst(data, stack, solutions, next_script, s + 1, 0,
                            last_success_key, tests)
    ELSE IF GetID(solutions[i + 2]) \in DOMAIN data.signatures
    THEN MatchSigsFromFirst(data, stack, solutions, next_script, s + 1, 0,
                            i + 1,
                            Append(tests, Test(s, i, last_success_key, TRUE)))
    ELSE IF TxCheckSig(stack[s], solutions[i + 2], next_script)
    THEN MatchSigsFromFirst(ExtractorCheckSig(data, stack[s],
                                              solutions[i + 2],
                                              next_script).data,
                            stack, solutions, next_script, s + 1, 0, i + 1,
                            Append(tests, Test(s, i, last_success_key, TRUE)))
    ELSE MatchSigsFromFirst(data, stack, solutions, next_script, s, i + 1,
                            last_success_key,
                            Append(tests, Test(s, i, last_success_key, FALSE)))

\* the multisig matching loops of DataFromTransaction: s indexes the stack
\* item, i the candidate pubkey (0-based as in the code), last_success_key
\* the cursor; tests lists the passes of the inner loop made so far
RECURSIVE MatchSigs(_, _, _, _, _, _, _, _)
MatchSigs(data, stack, solutions, next_script, s, i, last_success_key, tests) ==
    IF s > Len(stack) THEN [data |-> data, tests |-> tests]
    ELSE IF i >= Len(solutions) - 2
    THEN MatchSigs(data, stack, solutions, next_script, s + 1,
                   last_success_key, last_success_key, tests)
    ELSE IF GetID(solutions[i + 2]) \in DOMAIN data.signatures
    THEN MatchSigs(data, stack, solutions, next_script, s + 1, i + 1, i + 1,
                   Append(tests, Test(s, i, last_success_key, TRUE)))
    ELSE IF ExtractorCheckSig(data, stack[s], solutions[i + 2], next_script).ok
    THEN MatchSigs(ExtractorCheckSig(data, stack[s], solutions[i + 2],
                                     next_script).data,
                   stack, solutions, next_script, s + 1, i + 1, i + 1,
                   Append(tests, Test(s, i, last_success_key, TRUE)))
    ELSE MatchSigs(data, stack, solutions, next_script, s, i + 1,
                   last_success_key,
                   Append(tests, Test(s, i, last_success_key, FALSE)))

\* an extraction that collects the redeem script before it verifies
DataFromTransactionScriptsFirst(txScriptSig, scriptPubKey) ==
    LET data0 == [SignatureData EXCEPT !.scriptSig = txScriptSig]
        stack0 == Stacks(data0)
        v == VerifyScript(data0.scriptSig, scriptPubKey, "tx")
        hasRedeem == /\ Solver(scriptPubKey).type = "TX_SCRIPTHASH"
                     /\ Len(stack0) > 0
                     /\ Last(stack0) # EmptyItem
        data1 == [data0 EXCEPT !.signatures = Record(@, v.rec),
                               !.redeem_script =
                                   IF hasRedeem THEN Last(stack0) ELSE @]
    IN  [data1 EXCEPT !.complete = v.ok]

\* DataFromTransaction with the passes its matching loops made: data is the
\* SignatureData returned, next_script and solutions what the loops ran on
Extraction(txScriptSig, scriptPubKey) ==
    LET data0 == [SignatureData EXCEPT !.scriptSig = txScriptSig]
        stack0 == Stacks(data0)
        v == VerifyScript(data0.scriptSig, scriptPubKey, "tx")
        data1 == [data0 EXCEPT !.signatures = Record(@, v.rec)]
        type0 == Solver(scriptPubKey)
        hasRedeem == /\ type0.type = "TX_SCRIPTHASH"
                     /\ Len(stack0) > 0
                     /\ Last(stack0) # EmptyItem
        redeem_script == Last(stack0)
        data2 == IF hasRedeem
                 THEN [data1 EXCEPT !.redeem_script = redeem_script]
                 ELSE data1
        next_script == IF hasRedeem THEN redeem_script ELSE scriptPubKey
        type1 == IF hasRedeem THEN Solver(next_script) ELSE type0
        stack1 == IF hasRedeem THEN Front(stack0) ELSE stack0
        matching == ~v.ok /\ type1.type = "TX_MULTISIG" /\ Len(stack1) > 0
        m == IF matching
             THEN MatchSigs(data2, stack1, type1.vSolutions, next_script,
                            1, 0, 0, <<>>)
             ELSE [data |-> IF v.ok THEN [data1 EXCEPT !.complete = TRUE]
                            ELSE data2,
                   tests |-> <<>>]
    IN  [data |-> m.data, tests |-> m.tests, verified |-> v,
         matching |-> matching, stack |-> stack1,
         next_script |-> next_script, solutions |-> type1.vSolutions]

DataFromTransaction(txScriptSig, scriptPubKey) ==
    Extraction(txScriptSig, scriptPubKey).data

\* ------------------------------------------------------------------------
\* Merge, SignSignature, IsSolvable
\* ------------------------------------------------------------------------
\* a range insert that overwrites entries already present
InsertAllOverwrite(into, from) ==
    [k \in DOMAIN into \cup DOMAIN from |->
        IF k \in DOMAIN from THEN from[k] ELSE into[k]]

\* std::map::insert of a range: entries of `from` whose key is absent
InsertAll(into, from) ==
    [k \in DOMAIN into \cup DOMAIN from |->
        IF k \in DOMAIN into THEN into[k] ELSE from[k]]

\* a merge that takes over the complete flag but keeps its own script
MergeFlagOnly(this, sigdata) ==
    IF this.complete THEN this
    ELSE IF sigdata.complete THEN [this EXCEPT !.complete = TRUE]
    ELSE [this EXCEPT
            !.redeem_script =
                IF @ = EmptyItem /\ sigdata.redeem_script # EmptyItem
                THEN sigdata.redeem_script ELSE @,
            !.signatures = InsertAll(@, sigdata.signatures)]

\* a merge without the check that *this is already complete
MergeIntoComplete(this, sigdata) ==
    IF sigdata.complete THEN sigdata
    ELSE [this EXCEPT
            !.redeem_script =
                IF @ = EmptyItem /\ sigdata.redeem_script # EmptyItem
                THEN sigdata.redeem_script ELSE @,
            !.signatures = InsertAll(@, sigdata.signatures)]

\* a merge that reconciles a complete argument with the signatures held
MergeReconcile(this, sigdata) ==
    IF this.complete THEN this
    ELSE IF sigdata.complete
    THEN [sigdata EXCEPT !.signatures = InsertAll(this.signatures, @)]
    ELSE [this EXCEPT
            !.redeem_script =
                IF @ = EmptyItem /\ sigdata.redeem_script # EmptyItem
                THEN sigdata.redeem_script ELSE @,
            !.signatures = InsertAll(@, sigdata.signatures)]

\* a merge that prefers the argument's redeem script
MergePreferOther(this, sigdata) ==
    IF this.complete THEN this
    ELSE IF sigdata.complete THEN sigdata
    ELSE [this EXCEPT
            !.redeem_script =
                IF sigdata.redeem_script # EmptyItem
                THEN sigdata.redeem_script ELSE @,
            !.signatures = InsertAll(@, sigdata.signatures)]

\* a merge in which the argument's signature wins on a common key
MergeArgumentWins(this, sigdata) ==
    IF this.complete THEN this
    ELSE IF sigdata.complete THEN sigdata
    ELSE [this EXCEPT
            !.redeem_script =
                IF @ = EmptyItem /\ sigdata.redeem_script # EmptyItem
                THEN sigdata.redeem_script ELSE @,
            !.signatures = InsertAll(sigdata.signatures, @)]

\* a merge that also takes over what the argument reports missing
MergeWithMissing(this, sigdata) ==
    IF this.complete THEN this
    ELSE IF sigdata.complete THEN sigdata
    ELSE [this EXCEPT
            !.redeem_script =
                IF @ = EmptyItem /\ sigdata.redeem_script # EmptyItem
                THEN sigdata.redeem_script ELSE @,
            !.signatures = InsertAll(@, sigdata.signatures),
            !.missing_pubkeys = @ \o sigdata.missing_pubkeys,
            !.missing_sigs = @ \o sigdata.missing_sigs,
            !.missing_redeem_script =
                IF @ = 0 THEN sigdata.missing_redeem_script ELSE @]

\* this->MergeSignatureData(sigdata): the new value of *this
MergeSignatureData(this, sigdata) ==
    IF this.complete THEN this
    ELSE IF sigdata.complete THEN sigdata
    ELSE [this EXCEPT
            !.redeem_script =
                IF @ = EmptyItem /\ sigdata.redeem_script # EmptyItem
                THEN sigdata.redeem_script ELSE @,
            !.signatures = InsertAll(@, sigdata.signatures)]

\* UpdateInput: the new scriptSig of the input
UpdateInput(data) == data.scriptSig

SignSignature(provider, fromPubKey, sigHashType) ==
    LET r == ProduceSignature(provider, TxCreator(sigHashType), fromPubKey,
                              SignatureData)
    IN  [ret |-> r.ret, scriptSig |-> UpdateInput(r.sigdata),
         calls |-> r.calls]

\* SignSignature writing the script into the input only when it signed
SignSignatureInputIfSigned(provider, fromPubKey, scriptSig, sigHashType) ==
    IF SignSignature(provider, fromPubKey, sigHashType).ret
    THEN SignSignature(provider, fromPubKey, sigHashType).scriptSig
    ELSE scriptSig

\* txTo.vin[nIn].scriptSig after SignSignature, scriptSig its value before
SignSignatureInput(provider, fromPubKey, scriptSig, sigHashType) ==
    SignSignature(provider, fromPubKey, sigHashType).scriptSig

\* IsSolvable trying with a creator that needs the private keys
IsSolvableSigning(provider, script) ==
    LET r == ProduceSignature(provider,
                              TxCreator(SIGHASH_ALL + SIGHASH_FORKID), script,
                              SignatureData)
        verified == VerifyScript(r.sigdata.scriptSig, script, "tx").ok
    IN  [ret |-> r.ret, assertion |-> r.ret => verified]

IsSolvable(provider, script) ==
    LET r == ProduceSignature(provider, DUMMY_SIGNATURE_CREATOR, script,
                              SignatureData)
        verified == VerifyScript(r.sigdata.scriptSig, script, "dummy").ok
    IN  [ret |-> r.ret, assertion |-> r.ret => verified]

\* ------------------------------------------------------------------------
\* Inputs
\* ------------------------------------------------------------------------
\* providers: the empty one, the fully populated one, parties that know
\* every script and public key but hold only some private keys, a party
\* holding keys and origins but no scripts or public keys, and the full
\* provider with its secrets hidden
FullProvider == SigningProvider(AllScripts, KeyIds, KeyIds, KeyIds, FALSE, FALSE)

Providers ==
    {DUMMY_SIGNING_PROVIDER, FullProvider,
     [FullProvider EXCEPT !.hide_secret = TRUE, !.hide_origin = TRUE],
     SigningProvider({}, {}, KeyIds, KeyIds, FALSE, FALSE)}
    \cup {SigningProvider(AllScripts, KeyIds, ks, {}, FALSE, FALSE) :
            ks \in {{1}, {3}, {1, 3}}}

SigHashTypes == {SIGHASH_ALL + SIGHASH_FORKID, SIGHASH_ALL}

Creators == {TxCreator(ht) : ht \in SigHashTypes} \cup {DUMMY_SIGNATURE_CREATOR}

\* the script code signatures of this input commit to
ScriptCodeOf(scriptPubKey) ==
    IF IsPayToScriptHash(scriptPubKey)
    THEN CHOOSE s \in AllScripts : CScriptID(s) = BodyOf(scriptPubKey).sh
    ELSE scriptPubKey

ValidSig(k, scriptPubKey) ==
    SigItem(k, SignatureHash(ScriptCodeOf(scriptPubKey),
                             SIGHASH_ALL + SIGHASH_FORKID),
            SIGHASH_ALL + SIGHASH_FORKID)

\* unlocking scripts the transaction input may hold at the start: none, one
\* that is not push-only, and multisig signatures out of pubkey order
InitialScripts(scriptPubKey) ==
    { <<>>,
      <<OP_NOP>>,
      <<OP_0, PushData(ValidSig(3, scriptPubKey)),
        PushData(ValidSig(1, scriptPubKey))>> }

\* unlocking scripts another party may have extracted its data from: also one
\* ending in a script that is not the redeem script, and a signature without
\* the fork marker
ReceivedScripts(scriptPubKey) ==
    InitialScripts(scriptPubKey) \cup
    { <<PushData(ScriptItem(1))>>,
      <<PushData(SigItem(1, SignatureHash(ScriptCodeOf(scriptPubKey), SIGHASH_ALL),
                         SIGHASH_ALL))>> }

\* ------------------------------------------------------------------------
\* State
\* ------------------------------------------------------------------------
VARIABLES
    scriptPubKey,   \* locking script of the previous output of the input
    sigdata,        \* the SignatureData of the input
    txScriptSig,    \* tx.vin[nIn].scriptSig
    lastOp,         \* the operation that ran last
    ret,            \* its return value
    solved,         \* ProduceSignature's local `solved` at its end
    before,         \* complete and redeem_script of sigdata before the last operation
    merged,         \* the same of MergeSignatureData's argument, and the keys
                    \* on which the two signature maps disagreed
    nOps            \* operations run so far

vars == <<scriptPubKey, sigdata, txScriptSig, lastOp, ret, solved, before,
          merged, nOps>>

Digest(data) ==
    [complete |-> data.complete, redeem_script |-> data.redeem_script]

Conflicts(this, arg) ==
    {k \in DOMAIN this.signatures \cap DOMAIN arg.signatures :
        this.signatures[k] # arg.signatures[k]}

ArgDigest(this, arg) ==
    [complete |-> arg.complete, redeem_script |-> arg.redeem_script,
     conflicts |-> Conflicts(this, arg)]

NoArg == ArgDigest(SignatureData, SignatureData)

Init ==
    /\ scriptPubKey \in LockScripts
    /\ sigdata = SignatureData
    /\ txScriptSig \in InitialScripts(scriptPubKey)
    /\ lastOp = "init"
    /\ ret = FALSE
    /\ solved = FALSE
    /\ before = Digest(sigdata)
    /\ merged = NoArg
    /\ nOps = 0

\* every operation counts against the bound
Step ==
    /\ nOps < MaxOps
    /\ nOps' = nOps + 1
    /\ before' = Digest(sigdata)

CallProduceSignature ==
    \E p \in Providers, c \in Creators :
        LET r == ProduceSignature(p, c, scriptPubKey, sigdata) IN
        /\ Step
        /\ sigdata' = r.sigdata
        /\ ret' = r.ret
        /\ solved' = r.solved
        /\ lastOp' = "ProduceSignature"
        /\ merged' = NoArg
        /\ UNCHANGED <<scriptPubKey, txScriptSig>>

CallDataFromTransaction ==
    /\ Step
    /\ sigdata' = DataFromTransaction(txScriptSig, scriptPubKey)
    /\ lastOp' = "DataFromTransaction"
    /\ merged' = NoArg
    /\ ret' = FALSE
    /\ solved' = FALSE
    /\ UNCHANGED <<scriptPubKey, txScriptSig>>

\* SignatureData another party can hand over for this input
OtherProviders ==
    {FullProvider, SigningProvider(AllScripts, KeyIds, {2}, {}, FALSE, FALSE),
     SigningProvider({}, {}, {1}, {}, FALSE, FALSE)}

OtherSignatureData ==
    {DataFromTransaction(s, scriptPubKey) :
        s \in ReceivedScripts(scriptPubKey) \cup {txScriptSig}}
    \cup {ProduceSignature(p, c, scriptPubKey, SignatureData).sigdata :
            p \in OtherProviders, c \in Creators}

CallMergeSignatureData ==
    \E b \in OtherSignatureData :
        /\ Step
        /\ sigdata' = MergeSignatureData(sigdata, b)
        /\ lastOp' = "MergeSignatureData"
        /\ merged' = ArgDigest(sigdata, b)
        /\ ret' = FALSE
        /\ solved' = FALSE
        /\ UNCHANGED <<scriptPubKey, txScriptSig>>

CallUpdateInput ==
    /\ Step
    /\ txScriptSig' = UpdateInput(sigdata)
    /\ lastOp' = "UpdateInput"
    /\ merged' = NoArg
    /\ ret' = FALSE
    /\ solved' = FALSE
    /\ UNCHANGED <<scriptPubKey, sigdata>>

CallSignSignature ==
    \E p \in Providers, ht \in SigHashTypes :
        LET r == SignSignature(p, scriptPubKey, ht) IN
        /\ Step
        /\ sigdata = SignatureData
        /\ txScriptSig' = SignSignatureInput(p, scriptPubKey, txScriptSig, ht)
        /\ ret' = r.ret
        /\ lastOp' = "SignSignature"
        /\ merged' = NoArg
        /\ solved' = FALSE
        /\ UNCHANGED <<scriptPubKey, sigdata>>

CallIsSolvable ==
    \E p \in Providers :
        LET r == IsSolvable(p, scriptPubKey) IN
        /\ Step
        /\ sigdata = SignatureData
        /\ ret' = r.ret
        /\ lastOp' = "IsSolvable"
        /\ merged' = NoArg
        /\ solved' = FALSE
        /\ UNCHANGED <<scriptPubKey, sigdata, txScriptSig>>

Next ==
    \/ CallProduceSignature
    \/ CallDataFromTransaction
    \/ CallMergeSignatureData
    \/ CallUpdateInput
    \/ CallSignSignature
    \/ CallIsSolvable

Spec == Init /\ [][Next]_vars

\* ------------------------------------------------------------------------
\* Properties
\* ------------------------------------------------------------------------
IsSignature(v) == v.t \in {"sig", "dsig"}

MultiSigScripts == {ms \in AllScripts : Solver(ms).type = "TX_MULTISIG"}

Elems(seq) == {seq[i] : i \in 1..Len(seq)}

\* C1: for a MultiSig script with required count k, whatever the provider,
\* the creator and the signatures already cached, SignStep returns exactly
\* k + 1 items: an empty item, then the signatures, then empty items; and the
\* scriptSig ProduceSignature stores for a bare multisig has k + 1 pushes.
C1_MultiSigItemCount ==
    /\ \A ms \in MultiSigScripts, p \in Providers, c \in Creators :
          LET k == BodyOf(ms).req
              items == SignStep(p, c, ms, sigdata).ret
          IN  /\ Len(items) = k + 1
              /\ items[1] = EmptyItem
              /\ \E n \in 0..k :
                    /\ \A i \in 2..(n + 1) : IsSignature(items[i])
                    /\ \A i \in (n + 2)..(k + 1) : items[i] = EmptyItem
    /\ scriptPubKey \in MultiSigScripts =>
          /\ \A p \in Providers, c \in Creators :
                Len(ProduceSignature(p, c, scriptPubKey, sigdata).sigdata.scriptSig)
                    = BodyOf(scriptPubKey).req + 1
          /\ lastOp = "ProduceSignature" =>
                Len(sigdata.scriptSig) = BodyOf(scriptPubKey).req + 1

\* a 2-of-3 multisig signed with one key: placeholder, signature, padding
C1_Witness ==
    /\ lastOp = "ProduceSignature"
    /\ scriptPubKey \in MultiSigScripts
    /\ BodyOf(scriptPubKey).req = 2
    /\ ~sigdata.complete
    /\ Len(sigdata.scriptSig) = 3
    /\ sigdata.scriptSig[1] = OP_0
    /\ sigdata.scriptSig[2].o = "PUSH"
    /\ sigdata.scriptSig[3] = OP_0

\* C2: ProduceSignature on an incomplete SignatureData sets complete, and
\* returns true, exactly when resolution succeeded and VerifyScript accepts
\* the stored scriptSig against the locking script with the creator's checker.
C2_CompleteIffSolvedAndVerified ==
    ~sigdata.complete =>
        \A p \in Providers, c \in Creators :
            LET r == ProduceSignature(p, c, scriptPubKey, sigdata)
                verified == VerifyScript(r.sigdata.scriptSig, scriptPubKey,
                                         Checker(c)).ok
            IN  /\ r.ret = r.sigdata.complete
                /\ r.sigdata.complete <=> (r.solved /\ verified)

\* resolution succeeded but the interpreter rejected the script
C2_Witness ==
    /\ lastOp = "ProduceSignature"
    /\ solved
    /\ ~ret
    /\ ~sigdata.complete
    /\ sigdata.scriptSig # <<>>

HasDummySig(scriptSig) ==
    \E i \in 1..Len(scriptSig) : scriptSig[i].v.t = "dsig"

CheckerOf(scriptSig) == IF HasDummySig(scriptSig) THEN "dummy" ELSE "tx"

\* C3 as stated: a complete SignatureData has a non-empty scriptSig that
\* VerifyScript accepts against the locking script.
C3_CompleteIsNonEmptyAndVerifies ==
    sigdata.complete =>
        /\ sigdata.scriptSig # <<>>
        /\ VerifyScript(sigdata.scriptSig, scriptPubKey,
                        CheckerOf(sigdata.scriptSig)).ok

\* C3 amended: a complete SignatureData has a scriptSig that VerifyScript
\* accepts against the locking script (with the transaction checker unless
\* it holds dummy signatures); the scriptSig is non-empty unless the locking
\* script is not a recognised template.
C3_CompleteVerifies ==
    sigdata.complete =>
        /\ VerifyScript(sigdata.scriptSig, scriptPubKey,
                        CheckerOf(sigdata.scriptSig)).ok
        /\ sigdata.scriptSig = <<>> =>
              Solver(scriptPubKey).type = "TX_NONSTANDARD"

\* extraction found the scriptSig of the input to verify
C3_Witness ==
    /\ lastOp = "DataFromTransaction"
    /\ sigdata.complete
    /\ sigdata.scriptSig # <<>>
    /\ sigdata.signatures # NoSignatures

\* C4 as stated: no key of signatures appears in missing_sigs.
C4_SignedNeverMissing ==
    DOMAIN sigdata.signatures \cap Elems(sigdata.missing_sigs) = {}

\* C4 amended: the key ids one ProduceSignature call appends to missing_sigs
\* are not keys of signatures when the call returns; the earlier entries of
\* missing_sigs are kept as they are.
C4_AppendedAreUnsigned ==
    [][lastOp' = "ProduceSignature" =>
        /\ Len(sigdata'.missing_sigs) >= Len(sigdata.missing_sigs)
        /\ SubSeq(sigdata'.missing_sigs, 1, Len(sigdata.missing_sigs))
              = sigdata.missing_sigs
        /\ \A i \in (Len(sigdata.missing_sigs) + 1)..Len(sigdata'.missing_sigs) :
              sigdata'.missing_sigs[i] \notin DOMAIN sigdata'.signatures]_vars

\* one call signed for some keys and listed others as missing
C4_Witness ==
    /\ lastOp = "ProduceSignature"
    /\ sigdata.signatures # NoSignatures
    /\ sigdata.missing_sigs # <<>>
    /\ DOMAIN sigdata.signatures \cap Elems(sigdata.missing_sigs) = {}

\* C5: ProduceSignature on a complete SignatureData returns true, changes no
\* field and calls neither solver, provider, creator nor verifier.
C5_CompleteIsNoOp ==
    sigdata.complete =>
        \A p \in Providers, c \in Creators :
            LET r == ProduceSignature(p, c, scriptPubKey, sigdata)
            IN  /\ r.ret
                /\ r.sigdata = sigdata
                /\ r.calls = NoCalls
                /\ ProduceSignature(p, c, scriptPubKey, r.sigdata).sigdata
                      = sigdata

\* ProduceSignature ran on a SignatureData that was already complete
C5_Witness ==
    /\ lastOp = "ProduceSignature"
    /\ before.complete
    /\ sigdata.complete
    /\ ret

\* C6: merging into a complete SignatureData leaves it unchanged.
C6_MergeIntoCompleteUnchanged ==
    [][(lastOp' = "MergeSignatureData" /\ sigdata.complete) =>
          sigdata' = sigdata]_vars

\* a merge ran on a complete SignatureData
C6_Witness ==
    /\ lastOp = "MergeSignatureData"
    /\ before.complete
    /\ sigdata.complete

\* C7: merging incomplete b into incomplete a gives the union of the
\* signatures, a's entry winning on a common key, and a's redeem_script
\* unless it is empty, then b's.
C7_MergeIncomplete ==
    ~sigdata.complete =>
        \A b \in OtherSignatureData :
            ~b.complete =>
                LET m == MergeSignatureData(sigdata, b) IN
                /\ DOMAIN m.signatures
                      = DOMAIN sigdata.signatures \cup DOMAIN b.signatures
                /\ \A k \in DOMAIN sigdata.signatures :
                      m.signatures[k] = sigdata.signatures[k]
                /\ \A k \in DOMAIN b.signatures \ DOMAIN sigdata.signatures :
                      m.signatures[k] = b.signatures[k]
                /\ m.redeem_script =
                      IF sigdata.redeem_script # EmptyItem
                      THEN sigdata.redeem_script ELSE b.redeem_script

\* two incomplete SignatureData holding different signatures for one key
\* were merged
C7_Witness ==
    /\ lastOp = "MergeSignatureData"
    /\ ~before.complete
    /\ ~merged.complete
    /\ merged.conflicts # {}
    /\ ~sigdata.complete

\* C8: merging a complete b into an incomplete a replaces a by b.
C8_MergeCompleteReplaces ==
    ~sigdata.complete =>
        \A b \in OtherSignatureData :
            b.complete => MergeSignatureData(sigdata, b) = b

\* a complete argument replaced an incomplete SignatureData that held a
\* redeem script and a signature the argument does not have
C8_Witness ==
    /\ lastOp = "MergeSignatureData"
    /\ ~before.complete
    /\ merged.complete
    /\ before.redeem_script # EmptyItem
    /\ merged.conflicts # {}
    /\ sigdata.complete
    /\ sigdata.redeem_script = merged.redeem_script

\* C9 as stated: ProduceSignature and MergeSignatureData never clear or
\* change a non-empty redeem_script.
C9_RedeemScriptNeverChanges ==
    [][(lastOp' \in {"ProduceSignature", "MergeSignatureData"}
        /\ sigdata.redeem_script # EmptyItem) =>
          sigdata'.redeem_script = sigdata.redeem_script]_vars

\* C9 amended: a non-empty redeem_script is changed only by ProduceSignature
\* on a Pay2ScriptHash input when it does not hash to the script hash of the
\* locking script (it becomes the script that does), and by
\* MergeSignatureData replacing an incomplete SignatureData by a complete one.
C9_RedeemScriptChanges ==
    [][(lastOp' \in {"ProduceSignature", "MergeSignatureData"}
        /\ sigdata.redeem_script # EmptyItem
        /\ sigdata'.redeem_script # sigdata.redeem_script) =>
          IF lastOp' = "ProduceSignature"
          THEN /\ IsPayToScriptHash(scriptPubKey)
               /\ CScriptID(sigdata.redeem_script) # BodyOf(scriptPubKey).sh
               /\ CScriptID(sigdata'.redeem_script) = BodyOf(scriptPubKey).sh
          ELSE ~sigdata.complete /\ sigdata'.complete]_vars

\* an operation ran on a SignatureData with a redeem script and kept it
C9_Witness ==
    /\ lastOp \in {"ProduceSignature", "MergeSignatureData"}
    /\ before.redeem_script # EmptyItem
    /\ sigdata.redeem_script = before.redeem_script
    /\ ~sigdata.complete

\* C10: for a Pay2PublicKeyHash locking script whose key hash is in neither
\* signatures nor misc_pubkeys nor the provider, ProduceSignature returns
\* false, calls no creator, leaves signatures and missing_sigs unchanged and
\* appends the key hash to missing_pubkeys, which holds only that hash.
C10_UnknownKeyHash ==
    Solver(scriptPubKey).type = "TX_PUBKEYHASH" =>
        LET keyID == BodyOf(scriptPubKey).kh IN
        \A p \in Providers, c \in Creators :
            (/\ keyID \notin DOMAIN sigdata.signatures
             /\ keyID \notin DOMAIN sigdata.misc_pubkeys
             /\ ~HidingGetPubKey(p, keyID)) =>
                LET r == ProduceSignature(p, c, scriptPubKey, sigdata) IN
                /\ ~r.ret
                /\ r.calls.creator = 0
                /\ r.sigdata.signatures = sigdata.signatures
                /\ r.sigdata.missing_sigs = sigdata.missing_sigs
                /\ r.sigdata.missing_pubkeys
                      = Append(sigdata.missing_pubkeys, keyID)
                /\ Elems(r.sigdata.missing_pubkeys) = {keyID}

\* ProduceSignature failed on an unknown key hash
C10_Witness ==
    /\ lastOp = "ProduceSignature"
    /\ Solver(scriptPubKey).type = "TX_PUBKEYHASH"
    /\ ~ret
    /\ sigdata.signatures = NoSignatures
    /\ sigdata.missing_sigs = <<>>
    /\ sigdata.missing_pubkeys = <<BodyOf(scriptPubKey).kh>>

ForkIdCreator == TxCreator(SIGHASH_ALL + SIGHASH_FORKID)

TxCreators == {TxCreator(ht) : ht \in SigHashTypes}

\* key ids of the public keys a multisig script lists, in listed order
ListedKeys(ms) == [i \in 1..Len(BodyOf(ms).pks) |-> GetID(BodyOf(ms).pks[i])]

\* private keys a provider gives out
HeldKeys(p) == IF p.hide_secret THEN {} ELSE p.keys

\* the first k entries of keys that are in held
RECURSIVE FirstHeld(_, _, _)
FirstHeld(keys, held, k) ==
    IF keys = <<>> \/ k = 0 THEN <<>>
    ELSE IF Head(keys) \in held
    THEN <<Head(keys)>> \o FirstHeld(Tail(keys), held, k - 1)
    ELSE FirstHeld(Tail(keys), held, k)

\* C11: for a k-of-n MultiSig locking script and a provider holding the
\* private keys of at least k listed public keys, ProduceSignature on an
\* empty SignatureData (with a transaction signature creator using
\* SIGHASH_ALL|SIGHASH_FORKID) succeeds, the scriptSig is the placeholder
\* followed by the signatures of the first k held keys in listed order, and
\* DataFromTransaction on the signed input is complete and holds signatures
\* for exactly those k keys.
C11_MultiSigSubset ==
    (scriptPubKey \in MultiSigScripts /\ sigdata = SignatureData) =>
        \A p \in Providers :
            LET k == BodyOf(scriptPubKey).req
                listed == ListedKeys(scriptPubKey)
                chosen == FirstHeld(listed, HeldKeys(p), k)
                r == ProduceSignature(p, ForkIdCreator, scriptPubKey, sigdata)
                d == DataFromTransaction(UpdateInput(r.sigdata), scriptPubKey)
            IN  Cardinality(HeldKeys(p) \cap Elems(listed)) >= k =>
                    /\ r.ret
                    /\ r.sigdata.complete
                    /\ r.sigdata.scriptSig =
                          <<OP_0>> \o [i \in 1..k |->
                              PushData(ValidSig(chosen[i], scriptPubKey))]
                    /\ d.complete
                    /\ DOMAIN d.signatures = Elems(chosen)
                    /\ \A j \in Elems(chosen) :
                          d.signatures[j] =
                              SigPair(PubKeyOf(j), ValidSig(j, scriptPubKey))

\* a 2-of-3 input signed with the first and the third key was written into
\* the transaction and extracted again
C11_Witness ==
    /\ lastOp = "DataFromTransaction"
    /\ scriptPubKey \in MultiSigScripts
    /\ BodyOf(scriptPubKey).req = 2
    /\ sigdata.complete
    /\ Len(sigdata.scriptSig) = 3
    /\ DOMAIN sigdata.signatures = {1, 3}

\* C12 as stated: when ProduceSignature (on an incomplete SignatureData, with
\* a transaction signature creator) completes an input, DataFromTransaction on
\* the written script is complete and recovers exactly the (KeyId, signature)
\* pairs of the SignatureData that produced the script.
C12_RoundTripExact ==
    ~sigdata.complete =>
        \A p \in Providers, c \in TxCreators :
            LET r == ProduceSignature(p, c, scriptPubKey, sigdata)
                d == DataFromTransaction(UpdateInput(r.sigdata), scriptPubKey)
            IN  r.ret => (d.complete /\ d.signatures = r.sigdata.signatures)

\* C12 amended: the extraction is complete and every pair it recovers is a
\* pair of the producing SignatureData; the two maps are equal when
\* ProduceSignature started from an empty SignatureData.
C12_RoundTrip ==
    ~sigdata.complete =>
        \A p \in Providers, c \in TxCreators :
            LET r == ProduceSignature(p, c, scriptPubKey, sigdata)
                d == DataFromTransaction(UpdateInput(r.sigdata), scriptPubKey)
            IN  r.ret =>
                    /\ d.complete
                    /\ DOMAIN d.signatures \subseteq DOMAIN r.sigdata.signatures
                    /\ \A j \in DOMAIN d.signatures :
                          d.signatures[j] = r.sigdata.signatures[j]
                    /\ sigdata = SignatureData =>
                          d.signatures = r.sigdata.signatures
                    /\ Solver(scriptPubKey).type # "TX_NONSTANDARD" =>
                          d.signatures # NoSignatures

\* a signed Pay2PublicKeyHash input was extracted again
C12_Witness ==
    /\ lastOp = "DataFromTransaction"
    /\ Solver(scriptPubKey).type = "TX_PUBKEYHASH"
    /\ sigdata.complete
    /\ DOMAIN sigdata.signatures = {BodyOf(scriptPubKey).kh}

\* a Pay2ScriptHash locking script whose redeem script is Pay2ScriptHash
NestedScriptHash(script) ==
    IsPayToScriptHash(script) /\ IsPayToScriptHash(ScriptCodeOf(script))

\* C13 as stated: a Pay2ScriptHash whose redeem script is a MultiSig completes
\* with the fully keyed provider, and for a Pay2ScriptHash whose redeem script
\* is itself Pay2ScriptHash ProduceSignature always ends with complete = false
\* and returns false.
C13_NestedAlwaysFails ==
    /\ NestedScriptHash(scriptPubKey) =>
          \A p \in Providers, c \in Creators :
              LET r == ProduceSignature(p, c, scriptPubKey, sigdata)
              IN  ~r.ret /\ ~r.sigdata.complete
    /\ (/\ IsPayToScriptHash(scriptPubKey)
        /\ ScriptCodeOf(scriptPubKey) \in MultiSigScripts
        /\ sigdata = SignatureData) =>
          ProduceSignature(FullProvider, ForkIdCreator, scriptPubKey,
                           sigdata).ret

\* C13 amended: on a SignatureData that is not already complete, a
\* Pay2ScriptHash whose redeem script is Pay2ScriptHash ends with
\* complete = false and the return value false, whatever the provider and the
\* creator; a Pay2ScriptHash of a MultiSig completes from an empty
\* SignatureData with the fully keyed provider, the scriptSig being the k + 1
\* multisig items followed by the redeem script.
C13_OneLevel ==
    /\ (NestedScriptHash(scriptPubKey) /\ ~sigdata.complete) =>
          \A p \in Providers, c \in Creators :
              LET r == ProduceSignature(p, c, scriptPubKey, sigdata)
              IN  ~r.ret /\ ~r.sigdata.complete /\ ~r.solved
    /\ (/\ IsPayToScriptHash(scriptPubKey)
        /\ ScriptCodeOf(scriptPubKey) \in MultiSigScripts
        /\ sigdata = SignatureData) =>
          LET redeem == ScriptCodeOf(scriptPubKey)
              r == ProduceSignature(FullProvider, ForkIdCreator, scriptPubKey,
                                    sigdata)
          IN  /\ r.ret
              /\ r.sigdata.complete
              /\ r.sigdata.redeem_script = redeem
              /\ Len(r.sigdata.scriptSig) = BodyOf(redeem).req + 2
              /\ Last(r.sigdata.scriptSig) = PushData(redeem)

\* ProduceSignature resolved both script hashes of a nested Pay2ScriptHash
\* and failed
C13_Witness ==
    /\ lastOp = "ProduceSignature"
    /\ NestedScriptHash(scriptPubKey)
    /\ ~ret
    /\ ~sigdata.complete
    /\ Len(sigdata.scriptSig) = 2
    /\ sigdata.redeem_script = ScriptCodeOf(scriptPubKey)

Templates == {"TX_PUBKEY", "TX_PUBKEYHASH", "TX_SCRIPTHASH", "TX_MULTISIG"}

\* a provider that knows every script and public key
StructurallyValid(p) == p.scripts = AllScripts /\ p.pubkeys = KeyIds

\* C14 as stated: IsSolvable is true for every standard template with a
\* structurally valid provider, and false when the solver reports
\* TX_NONSTANDARD.
C14_StandardSolvable ==
    \A p \in Providers :
        StructurallyValid(p) =>
            /\ Solver(scriptPubKey).type \in Templates =>
                  IsSolvable(p, scriptPubKey).ret
            /\ Solver(scriptPubKey).type = "TX_NONSTANDARD" =>
                  ~IsSolvable(p, scriptPubKey).ret

\* what IsSolvable answers for a script that is not Pay2ScriptHash
SolvableDirectly(p, script) ==
    LET t == Solver(script).type IN
    \/ t \in {"TX_PUBKEY", "TX_MULTISIG"}
    \/ t = "TX_PUBKEYHASH" /\ HidingGetPubKey(p, BodyOf(script).kh)

\* C14 amended: IsSolvable needs no private key. It is true for
\* Pay2PublicKey and MultiSig with any provider, for Pay2PublicKeyHash when
\* the provider has the public key, and for Pay2ScriptHash when the provider
\* has the redeem script and that script is one of the former three and
\* solvable; it is false for TX_NONSTANDARD and TX_NULL_DATA; and the
\* assertion that the produced script verifies never fails.
C14_Solvable ==
    sigdata = SignatureData =>
        \A p \in Providers :
            LET r == IsSolvable(p, scriptPubKey)
                t == Solver(scriptPubKey).type
            IN  /\ r.assertion
                /\ t \in {"TX_NONSTANDARD", "TX_NULL_DATA"} => ~r.ret
                /\ t \in {"TX_PUBKEY", "TX_PUBKEYHASH", "TX_MULTISIG"} =>
                      (r.ret <=> SolvableDirectly(p, scriptPubKey))
                /\ t = "TX_SCRIPTHASH" =>
                      (r.ret <=>
                          /\ HidingGetCScript(p, BodyOf(scriptPubKey).sh)
                          /\ SolvableDirectly(p,
                                 FlatCScript(p, BodyOf(scriptPubKey).sh)))

\* IsSolvable answered true for a Pay2ScriptHash locking script
C14_Witness ==
    /\ lastOp = "IsSolvable"
    /\ ret
    /\ IsPayToScriptHash(scriptPubKey)

DirectTemplates == {"TX_PUBKEY", "TX_PUBKEYHASH", "TX_MULTISIG"}

\* C15 as stated: for every recognised template kind, TX_NULL_DATA included,
\* ProduceSignature on an empty SignatureData with the fully populated
\* provider completes with a scriptSig that VerifyScript accepts.
C15_EveryTemplateCompletes ==
    (/\ sigdata = SignatureData
     /\ Solver(scriptPubKey).type \in Templates \cup {"TX_NULL_DATA"}) =>
        LET r == ProduceSignature(FullProvider, ForkIdCreator, scriptPubKey,
                                  sigdata)
        IN  /\ r.ret
            /\ r.sigdata.complete
            /\ VerifyScript(r.sigdata.scriptSig, scriptPubKey, "tx").ok

\* C15 amended: with the fully populated provider (and a creator signing
\* SIGHASH_ALL|SIGHASH_FORKID) ProduceSignature on an empty SignatureData
\* completes, with a scriptSig VerifyScript accepts and nothing reported
\* missing, for Pay2PublicKey, Pay2PublicKeyHash and MultiSig and for a
\* Pay2ScriptHash of one of these; for TX_NULL_DATA it returns false and
\* leaves the scriptSig empty.
C15_TemplatesComplete ==
    sigdata = SignatureData =>
        LET t == Solver(scriptPubKey).type
            r == ProduceSignature(FullProvider, ForkIdCreator, scriptPubKey,
                                  sigdata)
        IN  /\ (\/ t \in DirectTemplates
                \/ /\ t = "TX_SCRIPTHASH"
                   /\ Solver(ScriptCodeOf(scriptPubKey)).type \in DirectTemplates)
                 => /\ r.ret
                    /\ r.sigdata.complete
                    /\ VerifyScript(r.sigdata.scriptSig, scriptPubKey, "tx").ok
                    /\ r.sigdata.missing_pubkeys = <<>>
                    /\ r.sigdata.missing_sigs = <<>>
                    /\ r.sigdata.missing_redeem_script = 0
            /\ t = "TX_NULL_DATA" =>
                    /\ ~r.ret
                    /\ ~r.sigdata.complete
                    /\ r.sigdata.scriptSig = <<>>

\* a Pay2ScriptHash of a Pay2PublicKeyHash script was signed: signature,
\* public key, redeem script
C15_Witness ==
    /\ lastOp = "ProduceSignature"
    /\ IsPayToScriptHash(scriptPubKey)
    /\ Solver(ScriptCodeOf(scriptPubKey)).type = "TX_PUBKEYHASH"
    /\ ret
    /\ sigdata.complete
    /\ Len(sigdata.scriptSig) = 3
    /\ sigdata.missing_sigs = <<>>

\* C16: DataFromTransaction returns a SignatureData holding the scriptSig of
\* the input; it is complete exactly when VerifyScript accepts that scriptSig
\* against the locking script, and then no redeem script was extracted;
\* whatever the scriptSig (empty, not push-only, unrecognised) nothing is
\* reported missing.
C16_ExtractionComplete ==
    lastOp = "DataFromTransaction" =>
        /\ sigdata.scriptSig = txScriptSig
        /\ sigdata.complete <=>
              VerifyScript(txScriptSig, scriptPubKey, "tx").ok
        /\ sigdata.complete => sigdata.redeem_script = EmptyItem
        /\ sigdata.missing_pubkeys = <<>>
        /\ sigdata.missing_sigs = <<>>
        /\ sigdata.missing_redeem_script = 0
        /\ ~IsPushOnly(txScriptSig) =>
              (~sigdata.complete /\ sigdata.signatures = NoSignatures)

\* a signed Pay2ScriptHash input was extracted: complete, signatures
\* recorded, no redeem script taken
C16_Witness ==
    /\ lastOp = "DataFromTransaction"
    /\ IsPayToScriptHash(scriptPubKey)
    /\ sigdata.complete
    /\ sigdata.redeem_script = EmptyItem
    /\ sigdata.signatures # NoSignatures

\* parties holding some of the private keys (and every script and public key)
Parties ==
    {SigningProvider(AllScripts, KeyIds, ks, {}, FALSE, FALSE) :
        ks \in SUBSET KeyIds \ {{}}}

\* locking scripts that are a MultiSig, bare or behind one Pay2ScriptHash
MultiSigLocks ==
    {l \in AllScripts :
        \/ l \in MultiSigScripts
        \/ IsPayToScriptHash(l) /\ ScriptCodeOf(l) \in MultiSigScripts}

\* the locking scripts paying to MultiSig script ms, bare or wrapped
LocksOf(ms) == {l \in MultiSigLocks : ScriptCodeOf(l) = ms}

\* the ways the SignatureData of one party reaches the next: as it is, merged
\* into a fresh SignatureData, and extracted from the partially signed input
HandedOn(data, lock) ==
    {data,
     MergeSignatureData(SignatureData, data),
     DataFromTransaction(UpdateInput(data), lock)}

\* C17: for a MultiSig locking script, bare or behind one Pay2ScriptHash,
\* when a party runs ProduceSignature on an empty SignatureData and a second
\* party runs it on what the first hands on (directly, merged, or extracted
\* from the partially signed input), every signature of the first party is
\* still held afterwards, and the second call is complete as soon as the two
\* parties hold k of the listed keys.
C17_CollaborativeSigning ==
    (scriptPubKey \in MultiSigScripts /\ sigdata = SignatureData) =>
        \A lock \in LocksOf(scriptPubKey), p1 \in Parties, p2 \in Parties :
            LET ms == scriptPubKey
                r1 == ProduceSignature(p1, ForkIdCreator, lock, sigdata)
            IN  \A h \in HandedOn(r1.sigdata, lock) :
                    LET r2 == ProduceSignature(p2, ForkIdCreator, lock, h)
                    IN  /\ \A j \in DOMAIN r1.sigdata.signatures :
                              /\ j \in DOMAIN h.signatures
                              /\ j \in DOMAIN r2.sigdata.signatures
                              /\ r2.sigdata.signatures[j]
                                    = r1.sigdata.signatures[j]
                        /\ Cardinality((HeldKeys(p1) \cup HeldKeys(p2))
                                       \cap Elems(ListedKeys(ms)))
                              >= BodyOf(ms).req
                             => (r2.ret /\ r2.sigdata.complete)

\* the second of two parties completed a 2-of-3 MultiSig input: the first
\* had signed for one key, the second signed for another
C17_Witness ==
    /\ lastOp = "ProduceSignature"
    /\ scriptPubKey \in MultiSigLocks
    /\ BodyOf(ScriptCodeOf(scriptPubKey)).req = 2
    /\ ~before.complete
    /\ sigdata.complete
    /\ Cardinality(DOMAIN sigdata.signatures) = 2
    /\ Len(sigdata.missing_sigs) >= 3

\* a step that accumulates: ProduceSignature, or a merge of incomplete data
Accumulating ==
    \/ lastOp' = "ProduceSignature"
    \/ lastOp' = "MergeSignatureData" /\ ~merged'.complete

SignaturesKept ==
    \A j \in DOMAIN sigdata.signatures :
        /\ j \in DOMAIN sigdata'.signatures
        /\ sigdata'.signatures[j] = sigdata.signatures[j]

\* C18 as stated: across ProduceSignature calls and merges of incomplete
\* data no entry of signatures is removed or changed and a non-empty
\* redeem_script is never lost.
C18_NothingLost ==
    [][Accumulating =>
          /\ SignaturesKept
          /\ sigdata.redeem_script # EmptyItem =>
                sigdata'.redeem_script # EmptyItem]_vars

\* C18 amended: across ProduceSignature calls and merges of incomplete data
\* no entry of signatures is removed or changed; a non-empty redeem_script is
\* kept, except that ProduceSignature on a Pay2ScriptHash input replaces a
\* redeem_script that does not hash to the script hash of the locking script
\* by the script the provider has for that hash.
C18_Accumulates ==
    [][Accumulating =>
          /\ SignaturesKept
          /\ (/\ sigdata.redeem_script # EmptyItem
              /\ sigdata'.redeem_script # sigdata.redeem_script) =>
                /\ lastOp' = "ProduceSignature"
                /\ IsPayToScriptHash(scriptPubKey)
                /\ CScriptID(sigdata.redeem_script) # BodyOf(scriptPubKey).sh
                /\ CScriptID(sigdata'.redeem_script) = BodyOf(scriptPubKey).sh]_vars

\* a second ProduceSignature completed a Pay2ScriptHash input: the redeem
\* script the first call had resolved was kept and a signature was added
C18_Witness ==
    /\ lastOp = "ProduceSignature"
    /\ IsPayToScriptHash(scriptPubKey)
    /\ ~before.complete
    /\ before.redeem_script # EmptyItem
    /\ sigdata.redeem_script = before.redeem_script
    /\ sigdata.signatures # NoSignatures
    /\ sigdata.missing_sigs # <<>>
    /\ sigdata.complete

\* C19: CreateSig for a public key whose KeyId is in signatures returns the
\* cached signature, does not call the creator and leaves SignatureData as
\* it is; otherwise it calls the creator once, and on success stores
\* (pubkey, signature) under the KeyId, on failure appends the KeyId to
\* missing_sigs and leaves signatures unchanged.
C19_NeverReSigns ==
    \A p \in Providers, c \in Creators, k \in KeyIds :
        LET pubkey == PubKeyOf(k)
            r == CreateSig(c, sigdata, p, pubkey, ScriptCodeOf(scriptPubKey))
        IN  IF k \in DOMAIN sigdata.signatures
            THEN /\ r.ok
                 /\ r.sig = sigdata.signatures[k].sig
                 /\ r.calls.creator = 0
                 /\ r.sigdata = sigdata
            ELSE /\ r.calls.creator = 1
                 /\ r.ok <=> (c.dummy \/ HidingGetKey(p, k))
                 /\ r.ok =>
                       /\ DOMAIN r.sigdata.signatures
                             = DOMAIN sigdata.signatures \cup {k}
                       /\ r.sigdata.signatures[k] = SigPair(pubkey, r.sig)
                       /\ \A j \in DOMAIN sigdata.signatures :
                             r.sigdata.signatures[j] = sigdata.signatures[j]
                       /\ r.sigdata.missing_sigs = sigdata.missing_sigs
                 /\ ~r.ok =>
                       /\ r.sigdata.signatures = sigdata.signatures
                       /\ r.sigdata.missing_sigs
                             = Append(sigdata.missing_sigs, k)

\* a Pay2PublicKey input was signed after an attempt without the key: the
\* KeyId was reported missing, then the signature was created and stored
C19_Witness ==
    /\ lastOp = "ProduceSignature"
    /\ Solver(scriptPubKey).type = "TX_PUBKEY"
    /\ sigdata.complete
    /\ sigdata.missing_sigs = <<GetID(BodyOf(scriptPubKey).pks[1])>>
    /\ DOMAIN sigdata.signatures = {GetID(BodyOf(scriptPubKey).pks[1])}

\* C20: in the MultiSig case of SignStep, on the MultiSig script this input
\* is signed for (the locking script or the script it wraps) and whatever the
\* provider, the creator and the signatures already cached, the public keys
\* are tried in listed
\* order until required signatures are collected: ret is the placeholder, the
\* signatures of the first `required` keys a signature can be had for, in
\* listed order, and padding; the keys after the one that gave the last
\* signature are not tried (nothing is added for them to signatures or
\* missing_sigs, no creator call is made); and SignStep succeeds exactly when
\* `required` signatures were collected.
C20_MultiSigOrder ==
    \A ms \in {ScriptCodeOf(scriptPubKey)} \cap MultiSigScripts :
      \A p \in Providers, c \in Creators :
        LET k == BodyOf(ms).req
            listed == ListedKeys(ms)
            Cached(j) == j \in DOMAIN sigdata.signatures
            Can(j) == Cached(j) \/ c.dummy \/ HidingGetKey(p, j)
            chosen == FirstHeld(listed, {j \in KeyIds : Can(j)}, k)
            n == Len(chosen)
            Pos(j) == CHOOSE i \in 1..Len(listed) : listed[i] = j
            Tried(j) == n < k \/ Pos(j) <= Pos(chosen[k])
            SigFor(j) == IF Cached(j) THEN sigdata.signatures[j].sig
                         ELSE CreatorCreateSig(c, p, j, ms).sig
            r == SignStep(p, c, ms, sigdata)
        IN  /\ r.ok <=> (n = k)
            /\ r.ret = <<EmptyItem>> \o [i \in 1..n |-> SigFor(chosen[i])]
                          \o [i \in 1..(k - n) |-> EmptyItem]
            /\ DOMAIN r.sigdata.signatures =
                  DOMAIN sigdata.signatures
                      \cup {j \in Elems(listed) : Tried(j) /\ Can(j)}
            /\ r.sigdata.missing_sigs =
                  sigdata.missing_sigs
                      \o SelectSeq(listed, LAMBDA j : Tried(j) /\ ~Can(j))
            /\ r.calls.creator =
                  Cardinality({j \in Elems(listed) : Tried(j) /\ ~Cached(j)})

\* a 2-of-3 MultiSig input signed by a party holding all three keys: the
\* third key was never tried
C20_Witness ==
    /\ lastOp = "ProduceSignature"
    /\ scriptPubKey \in MultiSigScripts
    /\ BodyOf(scriptPubKey).req = 2
    /\ Len(BodyOf(scriptPubKey).pks) = 3
    /\ sigdata.complete
    /\ DOMAIN sigdata.signatures = {1, 2}
    /\ sigdata.missing_sigs = <<>>

\* unlocking scripts an extraction is run on in a state: those another party
\* may hold, the one of the input and the one stored in the SignatureData
ExtractedScripts == ReceivedScripts(scriptPubKey) \cup {txScriptSig, sigdata.scriptSig}

\* C21: in the multisig matching of DataFromTransaction every stack item is
\* tried only against pubkeys at or after the cursor, the cursor never moves
\* back and stands just past the pubkey of the last match, so the matches
\* have strictly increasing stack and pubkey indices; every (KeyId,
\* signature) pair recorded was accepted by the transaction checker for that
\* key and the script matched against, and is a signature of the scriptSig.
C21_CursorForward ==
    \A script \in ExtractedScripts :
        LET e == Extraction(script, scriptPubKey)
            t == e.tests
            pushed == Elems(Stacks([SignatureData EXCEPT !.scriptSig = script]))
        IN  /\ \A n \in 1..Len(t) :
                  /\ t[n].i >= t[n].cursor
                  /\ t[n].i < Len(e.solutions) - 2
                  /\ t[n].s \in 1..Len(e.stack)
                  /\ t[n].hit =>
                        GetID(e.solutions[t[n].i + 2])
                            \in DOMAIN e.data.signatures
                  /\ n < Len(t) =>
                        t[n + 1].cursor =
                            IF t[n].hit THEN t[n].i + 1 ELSE t[n].cursor
            /\ \A n \in 1..Len(t), m \in 1..Len(t) :
                  (n < m /\ t[n].hit) =>
                      /\ t[n].s < t[m].s
                      /\ t[n].i < t[m].i
            /\ (t # <<>>) => (e.matching /\ t[1].cursor = 0)
            /\ \A k \in DOMAIN e.data.signatures :
                  /\ GetID(e.data.signatures[k].pubkey) = k
                  /\ TxCheckSig(e.data.signatures[k].sig,
                                e.data.signatures[k].pubkey, e.next_script)
                  /\ e.data.signatures[k].sig \in pushed

\* a 2-of-3 input whose signatures for the third and the first key stand in
\* the wrong order was extracted: incomplete, with signatures recorded
C21_Witness ==
    /\ lastOp = "DataFromTransaction"
    /\ scriptPubKey \in MultiSigScripts
    /\ ~sigdata.complete
    /\ Len(txScriptSig) = 3
    /\ txScriptSig[2] = PushData(ValidSig(3, scriptPubKey))
    /\ txScriptSig[3] = PushData(ValidSig(1, scriptPubKey))
    /\ sigdata.signatures # NoSignatures
    /\ Len(Extraction(txScriptSig, scriptPubKey).tests) > 1

\* C22: ProduceSignature running on a Pay2ScriptHash locking script (the
\* SignatureData not being complete already): when the redeem script is found,
\* in the provider or as a redeem_script of the SignatureData that hashes to
\* the script hash, it is stored in redeem_script and the stored scriptSig is
\* the pushes of the nested SignStep's items followed by the push of the
\* redeem script, whether or not the nested step succeeded; when it is found
\* in neither, missing_redeem_script is set to the script hash and
\* ProduceSignature returns false.
C22_RedeemScriptLast ==
    (IsPayToScriptHash(scriptPubKey) /\ ~sigdata.complete) =>
        \A p \in Providers, c \in Creators :
            LET h == BodyOf(scriptPubKey).sh
                inProvider == HidingGetCScript(p, h)
                inData == CScriptID(sigdata.redeem_script) = h
                redeem == IF inProvider THEN FlatCScript(p, h)
                          ELSE sigdata.redeem_script
                r == ProduceSignature(p, c, scriptPubKey, sigdata)
            IN  IF inProvider \/ inData
                THEN LET nested ==
                            SignStep(p, c, redeem,
                                     [sigdata EXCEPT !.redeem_script = redeem])
                     IN  /\ r.sigdata.redeem_script = redeem
                         /\ r.sigdata.scriptSig =
                               PushAll(nested.ret) \o <<PushOne(redeem)>>
                         /\ r.solved =>
                               (nested.ok /\ nested.whichTypeRet # "TX_SCRIPTHASH")
                ELSE /\ r.sigdata.missing_redeem_script = h
                     /\ ~r.ret
                     /\ ~r.sigdata.complete
                     /\ r.sigdata.scriptSig = <<>>
                     /\ r.sigdata.redeem_script = sigdata.redeem_script

\* the nested step of a Pay2ScriptHash of a MultiSig failed for want of keys,
\* and the script stored is placeholder, padding, redeem script
C22_Witness ==
    /\ lastOp = "ProduceSignature"
    /\ IsPayToScriptHash(scriptPubKey)
    /\ ~ret
    /\ ~solved
    /\ sigdata.redeem_script = ScriptCodeOf(scriptPubKey)
    /\ Len(sigdata.scriptSig) = 3
    /\ sigdata.scriptSig[1] = OP_0
    /\ sigdata.scriptSig[3] = PushData(sigdata.redeem_script)
    /\ sigdata.missing_redeem_script = 0

\* C23: merging an incomplete SignatureData b into an incomplete one changes
\* nothing but signatures and redeem_script, and redeem_script only when it
\* was empty: missing_pubkeys, missing_sigs, missing_redeem_script, scriptSig,
\* complete (and misc_pubkeys) stay as they were, whatever b holds in them.
C23_MergeFrame ==
    ~sigdata.complete =>
        \A b \in OtherSignatureData :
            ~b.complete =>
                LET m == MergeSignatureData(sigdata, b) IN
                /\ m.missing_pubkeys = sigdata.missing_pubkeys
                /\ m.missing_sigs = sigdata.missing_sigs
                /\ m.missing_redeem_script = sigdata.missing_redeem_script
                /\ m.scriptSig = sigdata.scriptSig
                /\ m.complete = sigdata.complete
                /\ [m EXCEPT !.signatures = sigdata.signatures,
                             !.redeem_script = sigdata.redeem_script] = sigdata
                /\ sigdata.redeem_script # EmptyItem =>
                      m.redeem_script = sigdata.redeem_script

\* the partial data of a party holding the second key of a 2-of-3 MultiSig,
\* which reports the other two keys missing and carries a scriptSig, was
\* merged into an empty SignatureData: only the signature came over
C23_Witness ==
    /\ lastOp = "MergeSignatureData"
    /\ nOps = 1
    /\ scriptPubKey \in MultiSigScripts
    /\ ~sigdata.complete
    /\ DOMAIN sigdata.signatures = {2}
    /\ sigdata.missing_sigs = <<>>
    /\ sigdata.scriptSig = <<>>
    /\ \E b \in OtherSignatureData :
          /\ ~b.complete
          /\ b.missing_sigs # <<>>
          /\ b.scriptSig # <<>>
          /\ MergeSignatureData(SignatureData, b) = sigdata

Unsatisfiable == {"TX_NONSTANDARD", "TX_NULL_DATA"}

C25_SignSignatureOverwrites ==
    [][lastOp' = "SignSignature" =>
          \E p \in Providers, ht \in SigHashTypes :
              LET r == ProduceSignature(p, TxCreator(ht), scriptPubKey,
                                        SignatureData)
              IN  /\ ret' = r.ret
                  /\ txScriptSig' = r.sigdata.scriptSig
                  /\ sigdata' = sigdata]_vars

\* SignSignature failed as the first operation and the input holds a script
\* that is not the one it started with: placeholder, one signature, padding
C25_Witness ==
    /\ lastOp = "SignSignature"
    /\ nOps = 1
    /\ ~ret
    /\ scriptPubKey \in MultiSigScripts
    /\ txScriptSig \notin InitialScripts(scriptPubKey)
    /\ Len(txScriptSig) = 3
    /\ txScriptSig[3] = OP_0

====
